---- MODULE Spec2Model ----
(***************************************************************************)
(* Model of the invoice / ledger reconciliation of src/main.py.            *)
(*                                                                         *)
(* Text is modelled as a sequence of one-character strings, so that        *)
(* str.strip, str.startswith, str.split, str.replace and the "in" test    *)
(* are computed character by character, as Python computes them.           *)
(*                                                                         *)
(* Amounts are exact integers counted in units of 0.005 (half a cent):     *)
(* 100.0 is 20000, 180.0 is 36000, and the 0.01 tolerance is 2.  Sums and  *)
(* differences are therefore exact; binary floating-point rounding is not  *)
(* part of the model.                                                      *)
(***************************************************************************)
EXTENDS Integers, Sequences, FiniteSets, TLC

VARIABLES
    df_pdf,                \* compare_pdf_spreadsheet: line items (argument)
    df_spreadsheet,        \* compare_pdf_spreadsheet: ledger entries (argument)
    df_comparison,         \* returned comparison rows
    total_pdf,             \* returned total of the pdf amounts
    total_diff,            \* returned total difference
    detailed_differences,  \* returned mapping entity key -> details
    pc,                    \* "input" while the arguments are built, "done" after the call
    table,                 \* format_main_table: the page's table (argument)
    result,                \* format_main_table: returned items
    tpc,                   \* "input" while the table is built, "done" after the call
    pages,                 \* read_pdf: the tables of the document's pages, in page order
    all_items,             \* read_pdf: the concatenated items of all pages
    df_typed,              \* read_pdf: the typed frame (one row per item)
    raised,                \* read_pdf: "" or the exception that ended the call
    rpc,                   \* "input" while the pages arrive, "done" after the call
    data,                  \* parse_spreadsheet_data: the ledger grid (argument)
    fortnight,             \* parse_spreadsheet_data: the sub-period (argument)
    vehicles_data,         \* parse_spreadsheet_data: returned entries
    spc,                   \* "input" while the grid is built, "done" after the call
    item,                  \* convert_str_to_float: the text (argument)
    converted,             \* convert_str_to_float: {value}, or None when it raised
    cpc                    \* "input" while the text is built, "done" after the call

compareVars == <<df_pdf, df_spreadsheet, df_comparison, total_pdf, total_diff,
                 detailed_differences, pc>>

tableVars == <<table, result, tpc>>

pdfVars == <<pages, all_items, df_typed, raised, rpc>>

sheetVars == <<data, fortnight, vehicles_data, spc>>

convertVars == <<item, converted, cpc>>

vars == <<compareVars, tableVars, pdfVars, sheetVars, convertVars>>

-----------------------------------------------------------------------------
(* Bounds of the explored inputs *)

MaxPdfItems == 3
MaxLedgerEntries == 2
MaxRows == 4
MaxPages == 3
MaxSheetRows == 5
MaxItemLen == 7

-----------------------------------------------------------------------------
(* Text helpers (Python str methods) *)

Abs(x) == IF x < 0 THEN -x ELSE x

\* Characters str.strip() removes.
Whitespace == {" ", "\t", "\n"}

\* Code point order of the characters that occur in entity keys.
Ord(c) ==
    CASE c = "\t" -> 9
      [] c = "\n" -> 10
      [] c = " " -> 32
      [] c = ":" -> 58
      [] c = "A" -> 65
      [] c = "B" -> 66
      [] c = "C" -> 67
      [] c = "D" -> 68
      [] c = "a" -> 97
      [] OTHER -> 127

RECURSIVE LStrip(_)
LStrip(s) ==
    IF s # <<>> /\ Head(s) \in Whitespace THEN LStrip(Tail(s)) ELSE s

RECURSIVE RStrip(_)
RStrip(s) ==
    IF s # <<>> /\ s[Len(s)] \in Whitespace
    THEN RStrip(SubSeq(s, 1, Len(s) - 1))
    ELSE s

\* str.strip(): leading and trailing whitespace removed, case preserved.
Strip(s) == RStrip(LStrip(s))

\* Python's str < str: lexicographic on code points.
RECURSIVE StrLess(_, _)
StrLess(s, t) ==
    IF t = <<>> THEN FALSE
    ELSE IF s = <<>> THEN TRUE
    ELSE IF Ord(Head(s)) # Ord(Head(t)) THEN Ord(Head(s)) < Ord(Head(t))
    ELSE StrLess(Tail(s), Tail(t))

RECURSIVE SumSeq(_)
SumSeq(s) == IF s = <<>> THEN 0 ELSE Head(s) + SumSeq(Tail(s))

-----------------------------------------------------------------------------
(* compare_pdf_spreadsheet: input domain *)

\* 0.01, in units of 0.005.
tolerance == 2

\* The line items the caller may supply: keys "A", " A" and "B", line totals
\* 0.005 and 100.0.
PdfRows ==
    { [Matricula |-> <<"A">>, Total |-> 1],
      [Matricula |-> <<" ", "A">>, Total |-> 1],
      [Matricula |-> <<"A">>, Total |-> 20000],
      [Matricula |-> <<"B">>, Total |-> 20000] }

\* The ledger entries the caller may supply: keys "A", "A " and "a", amounts
\* 0.01, -0.01 and 180.0.
LedgerRows ==
    { [Matricula |-> <<"A">>, Importe_Spreadsheet |-> 2],
      [Matricula |-> <<"A", " ">>, Importe_Spreadsheet |-> 36000],
      [Matricula |-> <<"A", " ">>, Importe_Spreadsheet |-> -2],
      [Matricula |-> <<"a">>, Importe_Spreadsheet |-> 2],
      [Matricula |-> <<"a">>, Importe_Spreadsheet |-> -2] }

\* A cell of a grouped or merged frame is {v} for the number v, or NaN.
NaN == {}

-----------------------------------------------------------------------------
(* compare_pdf_spreadsheet: the steps of the function *)

StripMatriculaNone(df) == df

\* df['Matricula'] = df['Matricula'].astype(str).str.strip()
StripMatricula(df) ==
    [i \in 1..Len(df) |-> [df[i] EXCEPT !.Matricula = Strip(df[i].Matricula)]]

KeysOf(df) == { df[i].Matricula : i \in 1..Len(df) }

\* Keys in ascending order, as groupby and the outer merge sort them.
RECURSIVE SortKeys(_)
SortKeys(S) ==
    IF S = {} THEN <<>>
    ELSE LET m == CHOOSE k \in S : \A o \in S \ {k} : StrLess(k, o)
         IN <<m>> \o SortKeys(S \ {m})

\* Sum of column col over the rows of df whose key is m (0 when none).
RECURSIVE SumWhere(_, _, _)
SumWhere(df, m, col) ==
    IF df = <<>> THEN 0
    ELSE (IF Head(df).Matricula = m THEN Head(df)[col] ELSE 0)
         + SumWhere(Tail(df), m, col)

\* df.groupby('Matricula')[col].sum().reset_index()
GroupSum(df, col) ==
    LET ks == SortKeys(KeysOf(df))
    IN [i \in 1..Len(ks) |-> [Matricula |-> ks[i], Sum |-> SumWhere(df, ks[i], col)]]

\* Value of key m in a grouped frame, NaN when the frame has no such row.
Lookup(g, m) ==
    IF \E i \in 1..Len(g) : g[i].Matricula = m
    THEN {g[CHOOSE i \in 1..Len(g) : g[i].Matricula = m].Sum}
    ELSE NaN

MergeInner(gp, gs) ==
    LET ks == SortKeys(KeysOf(gp) \cap KeysOf(gs))
    IN [i \in 1..Len(ks) |->
          [Matricula |-> ks[i],
           Importe_PDF |-> Lookup(gp, ks[i]),
           Importe_Spreadsheet |-> Lookup(gs, ks[i])]]

\* pd.merge(df_pdf_grouped, df_spreadsheet_grouped, on='Matricula', how='outer')
Merge(gp, gs) ==
    LET ks == SortKeys(KeysOf(gp) \cup KeysOf(gs))
    IN [i \in 1..Len(ks) |->
          [Matricula |-> ks[i],
           Importe_PDF |-> Lookup(gp, ks[i]),
           Importe_Spreadsheet |-> Lookup(gs, ks[i])]]

\* .fillna(0)
FillNa(x) == IF x = NaN THEN 0 ELSE CHOOSE v \in x : TRUE

EstadoInclusive(x) ==
    IF Abs(x) <= tolerance THEN "Coincide"
    ELSE IF x > 0 THEN "PDF Mayor" ELSE "Hoja de Calculo Mayor"

\* lambda x: Coincide if abs(x) < 0.01 else (PDF Mayor if x > 0 else Hoja Mayor)
Estado(x) ==
    IF Abs(x) < tolerance THEN "Coincide"
    ELSE IF x > 0 THEN "PDF Mayor" ELSE "Hoja de Calculo Mayor"

\* The merged frame with Diferencia and Estado, before sorting.
Comparison(gp, gs) ==
    LET m == Merge(gp, gs)
    IN [i \in 1..Len(m) |->
          LET p == FillNa(m[i].Importe_PDF)
              s == FillNa(m[i].Importe_Spreadsheet)
          IN [Matricula |-> m[i].Matricula,
              Importe_PDF |-> p,
              Importe_Spreadsheet |-> s,
              Diferencia |-> p - s,
              Estado |-> Estado(p - s)]]

VehiclesStrict(cmp) ==
    LET idx == SelectSeq([i \in 1..Len(cmp) |-> i],
                         LAMBDA i : Abs(cmp[i].Diferencia) > tolerance)
    IN [i \in 1..Len(idx) |-> cmp[idx[i]].Matricula]

\* df_comparison[abs(df_comparison['Diferencia']) >= 0.01]['Matricula'].tolist()
vehicles_with_differences(cmp) ==
    LET idx == SelectSeq([i \in 1..Len(cmp) |-> i],
                         LAMBDA i : Abs(cmp[i].Diferencia) >= tolerance)
    IN [i \in 1..Len(idx) |-> cmp[idx[i]].Matricula]

\* df_pdf[df_pdf['Matricula'] == matricula]: the row labels of the entity's
\* items, in input order (labels are the positions in df_pdf).
pdf_items(df, m) ==
    SelectSeq([i \in 1..Len(df) |-> i], LAMBDA i : df[i].Matricula = m)

\* One entry of vehicle_details['pdf_items'].
ItemOf(df, label) == [label |-> label, total |-> df[label].Total]

\* Single items within tolerance of the ledger sum, in input order.
ExactItemMatches(df, items, amount) ==
    LET hit == SelectSeq(items, LAMBDA l : Abs(df[l].Total - amount) < tolerance)
    IN [i \in 1..Len(hit) |->
          [type |-> "exact_item_match",
           pdf_items |-> <<ItemOf(df, hit[i])>>,
           spreadsheet_amount |-> amount,
           difference |-> df[hit[i]].Total - amount]]

\* Mutation of ComboMatches: the inner loop starts at i instead of i + 1.
RECURSIVE ComboMatchesWithSelf(_, _, _, _, _)
ComboMatchesWithSelf(df, items, amount, i, j) ==
    IF i > Len(items) THEN <<>>
    ELSE IF j > Len(items) THEN ComboMatchesWithSelf(df, items, amount, i + 1, i + 1)
    ELSE LET combo_total == df[items[i]].Total + df[items[j]].Total
         IN (IF Abs(combo_total - amount) < tolerance
             THEN << [type |-> "combo_match",
                      pdf_items |-> <<ItemOf(df, items[i]), ItemOf(df, items[j])>>,
                      spreadsheet_amount |-> amount,
                      difference |-> combo_total - amount] >>
             ELSE <<>>)
            \o ComboMatchesWithSelf(df, items, amount, i, j + 1)

\* for i in range(n): for j in range(i + 1, n): pairs within tolerance.
RECURSIVE ComboMatches(_, _, _, _, _)
ComboMatches(df, items, amount, i, j) ==
    IF i > Len(items) THEN <<>>
    ELSE IF j > Len(items) THEN ComboMatches(df, items, amount, i + 1, i + 2)
    ELSE LET combo_total == df[items[i]].Total + df[items[j]].Total
         IN (IF Abs(combo_total - amount) < tolerance
             THEN << [type |-> "combo_match",
                      pdf_items |-> <<ItemOf(df, items[i]), ItemOf(df, items[j])>>,
                      spreadsheet_amount |-> amount,
                      difference |-> combo_total - amount] >>
             ELSE <<>>)
            \o ComboMatches(df, items, amount, i, j + 1)

IdxMinLast(df, items, amount) ==
    LET d(i) == Abs(df[items[i]].Total - amount)
        k == CHOOSE i \in 1..Len(items) :
                 /\ \A o \in 1..Len(items) : d(i) <= d(o)
                 /\ \A o \in (i + 1)..Len(items) : d(o) > d(i)
    IN items[k]

\* pdf_items['Total'].sub(spreadsheet_amount).abs().idxmin(): the label of the
\* first row with the smallest distance.
IdxMin(df, items, amount) ==
    LET d(i) == Abs(df[items[i]].Total - amount)
        k == CHOOSE i \in 1..Len(items) :
                 /\ \A o \in 1..Len(items) : d(i) <= d(o)
                 /\ \A o \in 1..(i - 1) : d(o) > d(i)
    IN items[k]

ClosestMatch(df, items, amount) ==
    LET l == IdxMin(df, items, amount)
    IN << [type |-> "closest_match",
           pdf_items |-> <<ItemOf(df, l)>>,
           spreadsheet_amount |-> amount,
           difference |-> df[l].Total - amount] >>

PotentialMatchesWithClosest(df, items, amount) ==
    IF amount = 0 THEN <<>>
    ELSE ExactItemMatches(df, items, amount)
         \o (IF Len(items) > 1 THEN ComboMatches(df, items, amount, 1, 2) ELSE <<>>)
         \o ClosestMatch(df, items, amount)

\* Mutation of PotentialMatches: the search also runs for a ledger sum of 0.
PotentialMatchesAlways(df, items, amount) ==
    LET exact == ExactItemMatches(df, items, amount)
                 \o (IF Len(items) > 1
                     THEN ComboMatches(df, items, amount, 1, 2)
                     ELSE <<>>)
    IN IF exact = <<>> THEN ClosestMatch(df, items, amount) ELSE exact

\* vehicle_details['potential_matches'] of an entity with line items.
PotentialMatches(df, items, amount) ==
    IF amount = 0 THEN <<>>
    ELSE LET exact == ExactItemMatches(df, items, amount)
                      \o (IF Len(items) > 1
                          THEN ComboMatches(df, items, amount, 1, 2)
                          ELSE <<>>)
         IN IF exact = <<>> THEN ClosestMatch(df, items, amount) ELSE exact

LedgerOnlyDetailsUnsigned(m, amount) ==
    [matricula |-> m,
     pdf_total |-> 0,
     spreadsheet_total |-> amount,
     difference |-> amount,
     pdf_items |-> <<>>,
     potential_matches |-> <<>>]

\* The details of an entity without line items.
LedgerOnlyDetails(m, amount) ==
    [matricula |-> m,
     pdf_total |-> 0,
     spreadsheet_total |-> amount,
     difference |-> -amount,
     pdf_items |-> <<>>,
     potential_matches |-> <<>>]

\* The body of "for matricula in vehicles_with_differences".
VehicleDetails(df, gs, m) ==
    LET items == pdf_items(df, m)
        spreadsheet_amount == SumWhere(gs, m, "Sum")
        pdf_total == SumSeq([i \in 1..Len(items) |-> df[items[i]].Total])
    IN IF Len(items) = 0
       THEN LedgerOnlyDetails(m, spreadsheet_amount)
       ELSE [matricula |-> m,
             pdf_total |-> pdf_total,
             spreadsheet_total |-> spreadsheet_amount,
             difference |-> pdf_total - spreadsheet_amount,
             pdf_items |-> [i \in 1..Len(items) |-> ItemOf(df, items[i])],
             potential_matches |-> PotentialMatches(df, items, spreadsheet_amount)]

DetailedDifferences(df, gs, cmp) ==
    LET vs == vehicles_with_differences(cmp)
    IN [m \in { vs[i] : i \in 1..Len(vs) } |-> VehicleDetails(df, gs, m)]

RECURSIVE InsertAscending(_, _)
InsertAscending(row, sorted) ==
    IF sorted = <<>> THEN <<row>>
    ELSE IF Abs(Head(sorted).Diferencia) <= Abs(row.Diferencia)
         THEN <<Head(sorted)>> \o InsertAscending(row, Tail(sorted))
         ELSE <<row>> \o sorted

RECURSIVE SortValuesAscending(_)
SortValuesAscending(cmp) ==
    IF cmp = <<>> THEN <<>>
    ELSE InsertAscending(cmp[Len(cmp)],
                         SortValuesAscending(SubSeq(cmp, 1, Len(cmp) - 1)))

\* Insert row behind every row whose |Diferencia| is at least its own.
RECURSIVE InsertDescending(_, _)
InsertDescending(row, sorted) ==
    IF sorted = <<>> THEN <<row>>
    ELSE IF Abs(Head(sorted).Diferencia) >= Abs(row.Diferencia)
         THEN <<Head(sorted)>> \o InsertDescending(row, Tail(sorted))
         ELSE <<row>> \o sorted

\* df_comparison.sort_values('Diferencia_Abs', ascending=False); rows with
\* equal |Diferencia| keep their merge order.
RECURSIVE SortValues(_)
SortValues(cmp) ==
    IF cmp = <<>> THEN <<>>
    ELSE InsertDescending(cmp[Len(cmp)],
                          SortValues(SubSeq(cmp, 1, Len(cmp) - 1)))

TotalDiffReversed(tp, ts) == ts - tp

\* total_diff = total_pdf - total_spreadsheet
TotalDiff(tp, ts) == tp - ts

Column(df, col) == [i \in 1..Len(df) |-> df[i][col]]

-----------------------------------------------------------------------------
(* compare_pdf_spreadsheet: the state machine *)

InitCompare ==
    /\ df_pdf = <<>>
    /\ df_spreadsheet = <<>>
    /\ df_comparison = <<>>
    /\ total_pdf = 0
    /\ total_diff = 0
    /\ detailed_differences = <<>>
    /\ pc = "input"

\* The caller collects one more line item.
AppendPdfItem ==
    /\ pc = "input"
    /\ Len(df_pdf) < MaxPdfItems
    /\ \E r \in PdfRows : df_pdf' = Append(df_pdf, r)
    /\ UNCHANGED <<df_spreadsheet, df_comparison, total_pdf, total_diff,
                   detailed_differences, pc>>
    /\ UNCHANGED <<tableVars, pdfVars, sheetVars, convertVars>>

\* The caller collects one more ledger entry.
AppendLedgerEntry ==
    /\ pc = "input"
    /\ Len(df_spreadsheet) < MaxLedgerEntries
    /\ \E r \in LedgerRows : df_spreadsheet' = Append(df_spreadsheet, r)
    /\ UNCHANGED <<df_pdf, df_comparison, total_pdf, total_diff,
                   detailed_differences, pc>>
    /\ UNCHANGED <<tableVars, pdfVars, sheetVars, convertVars>>

\* compare_pdf_spreadsheet(df_pdf, df_spreadsheet), called when both frames
\* are non-empty.
Compare ==
    /\ pc = "input"
    /\ df_pdf # <<>>
    /\ df_spreadsheet # <<>>
    /\ LET p == StripMatricula(df_pdf)
           s == StripMatricula(df_spreadsheet)
           df_pdf_grouped == GroupSum(p, "Total")
           df_spreadsheet_grouped == GroupSum(s, "Importe_Spreadsheet")
           cmp == Comparison(df_pdf_grouped, df_spreadsheet_grouped)
           sorted == SortValues(cmp)
           tp == SumSeq(Column(sorted, "Importe_PDF"))
           ts == SumSeq(Column(df_spreadsheet_grouped, "Sum"))
       IN /\ detailed_differences' = DetailedDifferences(p, df_spreadsheet_grouped, cmp)
          /\ df_comparison' = sorted
          /\ total_pdf' = tp
          /\ total_diff' = TotalDiff(tp, ts)
    /\ pc' = "done"
    /\ UNCHANGED <<df_pdf, df_spreadsheet>>
    /\ UNCHANGED <<tableVars, pdfVars, sheetVars, convertVars>>

NextCompare ==
    \/ AppendPdfItem
    \/ AppendLedgerEntry
    \/ Compare

-----------------------------------------------------------------------------
(* format_main_table: text operations *)

\* sub in s
Contains(sub, s) ==
    \E i \in 1..(Len(s) - Len(sub) + 1) : SubSeq(s, i, i + Len(sub) - 1) = sub

\* s.startswith(pre)
StartsWith(s, pre) == Len(s) >= Len(pre) /\ SubSeq(s, 1, Len(pre)) = pre

\* s.split(c) for a one-character separator c.
RECURSIVE Split(_, _)
Split(s, c) ==
    IF \E i \in 1..Len(s) : s[i] = c
    THEN LET i == CHOOSE i \in 1..Len(s) : s[i] = c /\ \A j \in 1..(i - 1) : s[j] # c
         IN <<SubSeq(s, 1, i - 1)>> \o Split(SubSeq(s, i + 1, Len(s)), c)
    ELSE <<s>>

\* s.replace(c, r) for a one-character c and a replacement text r.
RECURSIVE Replace(_, _, _)
Replace(s, c, r) ==
    IF s = <<>> THEN <<>>
    ELSE (IF Head(s) = c THEN r ELSE <<Head(s)>>) \o Replace(Tail(s), c, r)

\* An absent value (Python None); a present value v is {v}.
None == {}

-----------------------------------------------------------------------------
(* format_main_table: the markers and the rows of the explored tables *)

Articulo == <<"A", "r", "t", "í", "c", "u", "l", "o">>
ABONO == <<"A", "B", "O", "N", "O">>
ALBARAN == <<"A", "L", "B", "A", "R", "A", "N">>
MatriculaPrefix == <<"A", ":">>

Empty == <<>>

HeaderRow == <<Articulo, <<"D", "e", "s", "c", "r", "i", "p", "c", "i", "ó", "n">>, <<"C", "a", "n", "t", "i", "d", "a", "d">>, <<"P", "r", "e", "c", "i", "o">>, <<"D", "t", "o">>, <<"T", "o", "t", "a", "l">>>>
BlankRow == <<Empty, Empty, Empty, Empty, Empty, Empty>>
\* "ALBARAN 000999" and "A:AB1234CD"
GroupRow1 == <<<<"A", "L", "B", "A", "R", "A", "N", " ", "0", "0", "0", "9", "9", "9">>, <<"A", ":", "A", "B", "1", "2", "3", "4", "C", "D">>, Empty, Empty, Empty, Empty>>
\* markers in other columns, a date cell with two spaces, a key with a second
\* ":" and surrounding blanks
GroupRow2 == <<Empty, <<"A", ":", " ", "A", "B", ":", "C", "D", " ">>, <<"A", "L", "B", "A", "R", "A", "N", " ", "1", "2", " ", "3", "4">>, Empty, Empty, Empty>>
\* a credit note, the marker inside the cell
AbonoRow == <<<<"A", "R", "T", "9">>, <<"X", " ", "A", "B", "O", "N", "O">>, <<"1">>, <<"2">>, Empty, <<"2">>>>
\* a credit note that also has both grouping markers
AbonoGroupRow == <<<<"A", "L", "B", "A", "R", "A", "N", " ", "7", " ", "A", "B", "O", "N", "O">>, <<"A", ":", "Z", "Z">>, Empty, Empty, Empty, Empty>>
DataRow1 == <<<<"A", "R", "T", "1">>, <<"F", "u", "e", "l">>, <<"1", ",", "5">>, <<"2", ",", "0", "0">>, <<"1", "0", "%">>, <<"1", ".", "3", "9", "9", ",", "5">>>>
\* only the article cell is filled
DataRow2 == <<<<"A", "R", "T", "2">>, Empty, Empty, Empty, Empty, Empty>>
\* the reference marker without the entity marker: a data row
HalfRow == <<<<"A", "L", "B", "A", "R", "A", "N", " ", "5">>, <<"F", "u", "e", "l">>, <<"1">>, <<"2">>, Empty, <<"2">>>>

\* "ALBARAN 1" and "A:AB:CD"
GroupRow3 == <<<<"A", "L", "B", "A", "R", "A", "N", " ", "1">>, <<"A", ":", "A", "B", ":", "C", "D">>, Empty, Empty, Empty, Empty>>
\* decimal commas and a percent sign, no thousands separator
DataRow3 == <<<<"A", "R", "T", "3">>, <<"O", "i", "l">>, <<"1", ",", "5">>, <<"2", ",", "0", "0">>, <<"1", "0", "%">>, <<"3", ",", "0", "0">>>>

Rows == { HeaderRow, BlankRow, GroupRow1, GroupRow2, GroupRow3, AbonoRow,
          AbonoGroupRow, DataRow1, DataRow2, DataRow3, HalfRow }

-----------------------------------------------------------------------------
(* format_main_table: the function *)

\* "Artículo" in line
IsHeader(line) == \E i \in 1..Len(line) : line[i] = Articulo

\* all(item == "" for item in line)
IsBlank(line) == \A i \in 1..Len(line) : line[i] = Empty

\* any('ABONO' in item for item in line)
IsAbono(line) == \E i \in 1..Len(line) : Contains(ABONO, line[i])

\* [idx for idx, element in enumerate(line) if element.startswith(prefix)]
MarkerIdx(line, prefix) ==
    SelectSeq([i \in 1..Len(line) |-> i], LAMBDA i : StartsWith(line[i], prefix))

\* len(albaran_idx) > 0 and len(matricula_idx) > 0
HasMarkers(line) ==
    Len(MarkerIdx(line, ALBARAN)) > 0 /\ Len(MarkerIdx(line, MatriculaPrefix)) > 0

\* albaran_line.split(" ")[-1]
FechaOf(line) ==
    LET parts == Split(line[MarkerIdx(line, ALBARAN)[1]], " ")
    IN parts[Len(parts)]

\* line[matricula_idx[0]].split(":")[1].strip()
MatriculaOf(line) ==
    Strip(Split(line[MarkerIdx(line, MatriculaPrefix)[1]], ":")[2])

\* line[k].replace(',', '.') if line[k] else "0"
NumberCell(cell) == IF cell # Empty THEN Replace(cell, ",", <<".">>) ELSE <<"0">>

\* line[4].replace('%', '').replace(',', '.') if line[4] else "0"
DiscountCell(cell) ==
    IF cell # Empty THEN Replace(Replace(cell, "%", <<>>), ",", <<".">>) ELSE <<"0">>

StepKeepFecha(acc, line) ==
    IF IsBlank(line) THEN acc
    ELSE IF IsAbono(line) THEN acc
    ELSE IF HasMarkers(line)
         THEN [acc EXCEPT !.matricula = MatriculaOf(line)]
    ELSE [acc EXCEPT !.result = Append(@,
              [Matricula |-> acc.matricula,
               Fecha |-> acc.fecha,
               Articulo |-> line[1],
               Descripcion |-> line[2],
               Cantidad |-> NumberCell(line[3]),
               Precio |-> NumberCell(line[4]),
               Descuento |-> DiscountCell(line[5]),
               Total |-> NumberCell(line[6])])]

StepGroupingBeforeAbono(acc, line) ==
    IF IsBlank(line) THEN acc
    ELSE IF HasMarkers(line)
         THEN [acc EXCEPT !.fecha = {FechaOf(line)},
                          !.matricula = MatriculaOf(line)]
    ELSE IF IsAbono(line) THEN acc
    ELSE [acc EXCEPT !.result = Append(@,
              [Matricula |-> acc.matricula,
               Fecha |-> acc.fecha,
               Articulo |-> line[1],
               Descripcion |-> line[2],
               Cantidad |-> NumberCell(line[3]),
               Precio |-> NumberCell(line[4]),
               Descuento |-> DiscountCell(line[5]),
               Total |-> NumberCell(line[6])])]

\* One iteration of "for line in table[header_idx+1:]".
Step(acc, line) ==
    IF IsBlank(line) THEN acc
    ELSE IF IsAbono(line) THEN acc
    ELSE IF HasMarkers(line)
         THEN [acc EXCEPT !.fecha = {FechaOf(line)},
                          !.matricula = MatriculaOf(line)]
    ELSE [acc EXCEPT !.result = Append(@,
              [Matricula |-> acc.matricula,
               Fecha |-> acc.fecha,
               Articulo |-> line[1],
               Descripcion |-> line[2],
               Cantidad |-> NumberCell(line[3]),
               Precio |-> NumberCell(line[4]),
               Descuento |-> DiscountCell(line[5]),
               Total |-> NumberCell(line[6])])]

RECURSIVE Loop(_, _)
Loop(acc, lines) ==
    IF lines = <<>> THEN acc ELSE Loop(Step(acc, Head(lines)), Tail(lines))

\* Index of the first row that has the header cell, 0 when there is none.
HeaderIdx(t) ==
    IF \E i \in 1..Len(t) : IsHeader(t[i])
    THEN CHOOSE i \in 1..Len(t) : IsHeader(t[i]) /\ \A j \in 1..(i - 1) : ~IsHeader(t[j])
    ELSE 0

\* format_main_table(table)
FormatMainTable(t) ==
    IF HeaderIdx(t) = 0 THEN <<>>
    ELSE Loop([result |-> <<>>, matricula |-> Empty, fecha |-> None],
              SubSeq(t, HeaderIdx(t) + 1, Len(t))).result

-----------------------------------------------------------------------------
(* format_main_table: the state machine *)

InitTable ==
    /\ table = <<>>
    /\ result = <<>>
    /\ tpc = "input"

\* The table source delivers the next row of the page.
AppendRow ==
    /\ tpc = "input"
    /\ Len(table) < MaxRows
    /\ \E r \in Rows : table' = Append(table, r)
    /\ UNCHANGED <<result, tpc>>
    /\ UNCHANGED <<compareVars, pdfVars, sheetVars, convertVars>>

\* items = format_main_table(table)
FormatTable ==
    /\ tpc = "input"
    /\ result' = FormatMainTable(table)
    /\ tpc' = "done"
    /\ UNCHANGED table
    /\ UNCHANGED <<compareVars, pdfVars, sheetVars, convertVars>>

NextTable ==
    \/ AppendRow
    \/ FormatTable

-----------------------------------------------------------------------------
(* Python float() on the texts of this program *)

\* The decimal digits, in order of value.
Digits == <<"0", "1", "2", "3", "4", "5", "6", "7", "8", "9">>

IsDigit(c) == \E i \in 1..Len(Digits) : Digits[i] = c

DigitVal(c) == (CHOOSE i \in 1..Len(Digits) : Digits[i] = c) - 1

\* Value of a text of digits.
RECURSIVE IntOf(_)
IntOf(s) ==
    IF s = <<>> THEN 0
    ELSE IntOf(SubSeq(s, 1, Len(s) - 1)) * Len(Digits) + DigitVal(s[Len(s)])

\* The number n / 10^d in lowest decimal terms, so that equal numbers are
\* equal records ("3.00" and "3" are the same float).
RECURSIVE Decimal(_, _)
Decimal(n, d) ==
    IF d > 0 /\ n % Len(Digits) = 0
    THEN Decimal(n \div Len(Digits), d - 1)
    ELSE [num |-> n, scale |-> d]

\* float(s): surrounding whitespace is dropped, then an optional sign, then
\* digits with at most one "." and at least one digit.  None stands for
\* ValueError.  The texts explored hold no exponent, "inf", "nan" or "_", and
\* are short enough for the binary rounding of float to keep them apart.
FloatOf(s) ==
    LET t == Strip(s)
        signed == t # <<>> /\ t[1] \in {"-", "+"}
        body == IF signed THEN Tail(t) ELSE t
        dots == { i \in 1..Len(body) : body[i] = "." }
        wellFormed == /\ \A i \in 1..Len(body) : IsDigit(body[i]) \/ body[i] = "."
                      /\ Cardinality(dots) <= 1
                      /\ \E i \in 1..Len(body) : IsDigit(body[i])
        mag == IntOf(SelectSeq(body, IsDigit))
        scale == IF dots = {} THEN 0 ELSE Len(body) - (CHOOSE i \in dots : TRUE)
    IN IF ~wellFormed THEN None
       ELSE {Decimal(IF signed /\ t[1] = "-" THEN -mag ELSE mag, scale)}

-----------------------------------------------------------------------------
(* convert_str_to_float *)

\* Mutation of ConvertStrToFloat: the thousands separators are kept.
ConvertKeepDots(s) == FloatOf(Replace(s, ",", <<".">>))

\* item.replace('.', ''); item.replace(',', '.'); float(item)
ConvertStrToFloat(s) == FloatOf(Replace(Replace(s, ".", <<>>), ",", <<".">>))

-----------------------------------------------------------------------------
(* read_pdf: the pages of the explored documents *)

DataRow4 == <<<<"A", "R", "T", "4">>, <<"G", "a", "s">>, <<"1">>, <<"1", ".", "3", "9", "9">>, <<"5", "%">>, <<"1", ".", "3", "9", "9">>>>

\* A page whose table has no header row.
CoverPage == <<BlankRow, DataRow3>>
\* A page that opens a delivery note.
FirstPage == <<HeaderRow, GroupRow1, DataRow3>>
\* A page that continues the delivery note of the page before it.
ContinuationPage == <<HeaderRow, DataRow3, GroupRow3, DataRow2>>
\* A page with a total above a thousand.
ThousandsPage == <<HeaderRow, GroupRow1, DataRow1>>
\* A page with a unit price above a thousand.
PricePage == <<HeaderRow, GroupRow1, DataRow4>>

PageTables == { CoverPage, FirstPage, ContinuationPage, ThousandsPage, PricePage }

-----------------------------------------------------------------------------
(* read_pdf: the function *)

\* for page in pdf.pages: all_items.extend(format_main_table(table))
RECURSIVE ExtendItems(_)
ExtendItems(ps) ==
    IF ps = <<>> THEN <<>>
    ELSE FormatMainTable(Head(ps)) \o ExtendItems(Tail(ps))

NumericColumns == {"Cantidad", "Precio", "Descuento", "Total"}

\* The exception that "df = pd.DataFrame(all_items); df[col].astype(float)"
\* raises, "" when it raises none: a frame built from no items has no
\* columns, and astype(float) rejects a text float() rejects.
Raised(items) ==
    IF items = <<>> THEN "KeyError"
    ELSE IF \E n \in 1..Len(items) : \E col \in NumericColumns :
                FloatOf(items[n][col]) = None
         THEN "ValueError"
    ELSE ""

\* df[col] = df[col].astype(float) for the four numeric columns.
AsTypeFloat(items) ==
    [n \in 1..Len(items) |->
        [items[n] EXCEPT !.Cantidad = FloatOf(@), !.Precio = FloatOf(@),
                         !.Descuento = FloatOf(@), !.Total = FloatOf(@)]]

-----------------------------------------------------------------------------
(* read_pdf: the state machine.  The totals table of the last page is taken *)
(* to be well formed, so that lines 167-178 raise nothing.                  *)

\* The document has one more page.
AddPage ==
    /\ rpc = "input"
    /\ Len(pages) < MaxPages
    /\ \E p \in PageTables : pages' = Append(pages, p)
    /\ UNCHANGED <<all_items, df_typed, raised, rpc>>
    /\ UNCHANGED <<compareVars, tableVars, sheetVars, convertVars>>

\* df, ... = read_pdf(pdf_path)
ReadPdf ==
    /\ rpc = "input"
    /\ Len(pages) > 0
    /\ all_items' = ExtendItems(pages)
    /\ raised' = Raised(ExtendItems(pages))
    /\ df_typed' = IF Raised(ExtendItems(pages)) = ""
                   THEN AsTypeFloat(ExtendItems(pages)) ELSE <<>>
    /\ rpc' = "done"
    /\ UNCHANGED pages
    /\ UNCHANGED <<compareVars, tableVars, sheetVars, convertVars>>

NextPdf ==
    \/ AddPage
    \/ ReadPdf

-----------------------------------------------------------------------------
(* parse_spreadsheet_data: the rows of the explored sheets *)

Quincena == <<"Q", "u", "i", "n", "c", "e", "n", "a", " ">>

\* The row that names both fortnight sections.
AnchorRow == <<Quincena \o <<"1">>, Empty, <<"T", "O", "T", "A", "L", " ", "Q", "1">>, <<"1", "8", "4", "6", ",", "4", "6">>, Quincena \o <<"2">>, Empty, <<"T", "O", "T", "A", "L", " ", "Q", "2">>, <<"0">>>>
\* The column headers below it; as a data row its amount cell is no number.
SubHeaderRow == <<<<"V">>, <<"C">>, <<"M", "a", "t">>, <<"I", "m", "p">>, <<"V">>, <<"C">>, <<"M", "a", "t">>, <<"I", "m", "p">>>>
\* A vehicle in each section.
EntryRow == <<<<"V">>, <<"C">>, <<" ", "A", "B", "1", " ">>, <<"1", "2", ",", "3", "0">>, <<"V">>, <<"C">>, <<"C", "D", "2">>, <<"-", "5">>>>
\* No registration but an amount on the left, a blank amount on the right.
OddRow == <<Empty, Empty, Empty, <<" ", "7", " ">>, <<"V">>, <<"C">>, <<"C", "D", "2">>, <<" ">>>>
\* A row that holds the left section only.
ShortRow == <<<<"V">>, <<"C">>, <<"E", "F", "3">>, <<"-", "-", "9">>>>
\* A row too short for either section.
StubRow == <<<<"V">>, <<"C">>, <<"G", "H", "4">>>>

SheetRows == { AnchorRow, SubHeaderRow, EntryRow, OddRow, ShortRow, StubRow }

Fortnights == { <<"1">>, <<"2">> }

-----------------------------------------------------------------------------
(* parse_spreadsheet_data: the function *)

\* f"Quincena {fortnight}"
FortnightKey(f) == Quincena \o f

\* The cells, as <<row, column>>, whose text holds the key.
KeyCells(d, key) ==
    UNION { { <<r, c>> : c \in { k \in 1..Len(d[r]) : Contains(key, d[r][k]) } } :
                r \in 1..Len(d) }

\* The first of them, row by row and left to right (lines 276-283).
HeaderCell(d, key) ==
    CHOOSE rc \in KeyCells(d, key) :
        \A o \in KeyCells(d, key) :
            rc[1] < o[1] \/ (rc[1] = o[1] /\ rc[2] <= o[2])

\* -x for a float x.
Negate(x) == { [num |-> 0 - v.num, scale |-> v.scale] : v \in x }

\* importe_clean = importe_str.replace(',', '.'), then -float(importe_clean[1:])
\* for a text that starts with '-' and float(importe_clean) otherwise; None
\* stands for ValueError.
ParseImporte(importe_str) ==
    LET importe_clean == Replace(importe_str, ",", <<".">>)
    IN IF StartsWith(importe_clean, <<"-">>)
       THEN Negate(FloatOf(Tail(importe_clean)))
       ELSE FloatOf(importe_clean)

\* "for i in range(first, len(data))" from row i on.
RECURSIVE ScanRows(_, _, _, _)
ScanRows(d, i, matricula_col, importe_col) ==
    IF i > Len(d) THEN <<>>
    ELSE IF Len(d[i]) < importe_col THEN <<>>
    ELSE LET matricula == Strip(d[i][matricula_col])
             importe_str == Strip(d[i][importe_col])
             rest == ScanRows(d, i + 1, matricula_col, importe_col)
         IN IF importe_str = Empty THEN rest
            ELSE IF ParseImporte(importe_str) = None THEN rest
            ELSE <<[Matricula |-> matricula,
                    Importe_Spreadsheet |-> ParseImporte(importe_str)]>> \o rest

\* Mutation of ParseSpreadsheetData: the scan starts on the row below the anchor.
ParseFromSubHeader(d, f) ==
    IF KeyCells(d, FortnightKey(f)) = {} THEN <<>>
    ELSE LET h == HeaderCell(d, FortnightKey(f))
         IN ScanRows(d, h[1] + 1, h[2] + 2, h[2] + 3)

\* parse_spreadsheet_data(data, fortnight)
ParseSpreadsheetData(d, f) ==
    IF KeyCells(d, FortnightKey(f)) = {} THEN <<>>
    ELSE LET h == HeaderCell(d, FortnightKey(f))
         IN ScanRows(d, h[1] + 2, h[2] + 2, h[2] + 3)

-----------------------------------------------------------------------------
(* parse_spreadsheet_data: the state machine *)

\* The sheet has one more row.
AppendSheetRow ==
    /\ spc = "input"
    /\ Len(data) < MaxSheetRows
    /\ \E r \in SheetRows : data' = Append(data, r)
    /\ UNCHANGED <<fortnight, vehicles_data, spc>>
    /\ UNCHANGED <<compareVars, tableVars, pdfVars, convertVars>>

\* df_spreadsheet = parse_spreadsheet_data(data, fortnight)
ParseSheet ==
    /\ spc = "input"
    /\ \E f \in Fortnights :
          /\ fortnight' = f
          /\ vehicles_data' = ParseSpreadsheetData(data, f)
    /\ spc' = "done"
    /\ UNCHANGED data
    /\ UNCHANGED <<compareVars, tableVars, pdfVars, convertVars>>

NextSheet ==
    \/ AppendSheetRow
    \/ ParseSheet

-----------------------------------------------------------------------------
(* convert_str_to_float: the state machine *)

\* The pieces the explored texts are made of.
Chunks == { <<"1">>, <<".", "3", "9", "9">>, <<",", "5">>, <<"-">>,
            <<"1", "2", ",", "3", "0">>, <<"%">> }

\* The text has one more piece.
AppendChunk ==
    /\ cpc = "input"
    /\ \E c \in Chunks :
          /\ Len(item) + Len(c) <= MaxItemLen
          /\ item' = item \o c
    /\ UNCHANGED <<converted, cpc>>
    /\ UNCHANGED <<compareVars, tableVars, pdfVars, sheetVars>>

\* convert_str_to_float(item); None stands for the ValueError of float().
Convert ==
    /\ cpc = "input"
    /\ converted' = ConvertStrToFloat(item)
    /\ cpc' = "done"
    /\ UNCHANGED item
    /\ UNCHANGED <<compareVars, tableVars, pdfVars, sheetVars>>

NextConvert ==
    \/ AppendChunk
    \/ Convert

-----------------------------------------------------------------------------
(* Specifications *)

InitPdf ==
    /\ pages = <<>>
    /\ all_items = <<>>
    /\ df_typed = <<>>
    /\ raised = ""
    /\ rpc = "input"

InitSheet ==
    /\ data = <<>>
    /\ fortnight = <<>>
    /\ vehicles_data = <<>>
    /\ spc = "input"

InitConvert ==
    /\ item = <<>>
    /\ converted = None
    /\ cpc = "input"

Init == InitCompare /\ InitTable /\ InitPdf /\ InitSheet /\ InitConvert

\* Reconciliation: the arguments are built, then compare_pdf_spreadsheet runs.
SpecCompare == Init /\ [][NextCompare]_vars

\* Line-item parsing: a page's table is built, then format_main_table runs.
SpecTable == Init /\ [][NextTable]_vars

\* Document reading: the pages are laid out, then read_pdf runs.
SpecPdf == Init /\ [][NextPdf]_vars

\* Ledger parsing: the sheet is laid out, then parse_spreadsheet_data runs.
SpecSheet == Init /\ [][NextSheet]_vars

\* Number conversion: a text is put together, then convert_str_to_float runs.
SpecConvert == Init /\ [][NextConvert]_vars

-----------------------------------------------------------------------------
(* Vocabulary of the properties of compare_pdf_spreadsheet, stated on the    *)
(* arguments and the returned values.                                       *)

Done == pc = "done"

Positions(df) == [i \in 1..Len(df) |-> i]

\* Trimmed entity keys that occur on either side.
InputKeys ==
    { Strip(df_pdf[i].Matricula) : i \in 1..Len(df_pdf) }
    \cup { Strip(df_spreadsheet[i].Matricula) : i \in 1..Len(df_spreadsheet) }

\* Positions in df_pdf of the line items of entity k, in input order.
ItemsOfKey(k) ==
    SelectSeq(Positions(df_pdf), LAMBDA i : Strip(df_pdf[i].Matricula) = k)

\* Positions in df_spreadsheet of the ledger entries of entity k.
EntriesOfKey(k) ==
    SelectSeq(Positions(df_spreadsheet),
              LAMBDA i : Strip(df_spreadsheet[i].Matricula) = k)

\* The same positions as a set.
ItemsOfKeySet(k) == { i \in 1..Len(df_pdf) : Strip(df_pdf[i].Matricula) = k }

PdfSumOf(k) ==
    LET it == ItemsOfKey(k)
    IN SumSeq([i \in 1..Len(it) |-> df_pdf[it[i]].Total])

LedgerSumOf(k) ==
    LET en == EntriesOfKey(k)
    IN SumSeq([i \in 1..Len(en) |-> df_spreadsheet[en[i]].Importe_Spreadsheet])

RowKeys == { df_comparison[i].Matricula : i \in 1..Len(df_comparison) }

RowsOfKey(k) ==
    SelectSeq(df_comparison, LAMBDA r : r.Matricula = k)

\* Some single item of entity k is within the tolerance of its ledger sum.
SingleHit(k) ==
    \E i \in 1..Len(ItemsOfKey(k)) :
        Abs(df_pdf[ItemsOfKey(k)[i]].Total - LedgerSumOf(k)) < tolerance

\* Some pair of two different items of entity k is within the tolerance.
PairHit(k) ==
    \E i, j \in 1..Len(ItemsOfKey(k)) :
        /\ i < j
        /\ Abs(df_pdf[ItemsOfKey(k)[i]].Total + df_pdf[ItemsOfKey(k)[j]].Total
               - LedgerSumOf(k)) < tolerance

\* Kinds of candidate the details of entity k list.
TypesOf(k) ==
    { detailed_differences[k].potential_matches[i].type :
          i \in 1..Len(detailed_differences[k].potential_matches) }

\* Mismatched entities with at least one line item and a non-zero ledger sum.
Searched ==
    { k \in DOMAIN detailed_differences :
          Len(ItemsOfKey(k)) > 0 /\ LedgerSumOf(k) # 0 }

-----------------------------------------------------------------------------
(* C1 *)

-----------------------------------------------------------------------------
(* C2 *)

\* C2: every comparison row has difference = pdf sum - ledger sum, and its
\* status is Match exactly when |difference| < 0.01, PdfGreater exactly when
\* difference >= 0.01 and LedgerGreater exactly when difference <= -0.01, so a
\* difference of exactly 0.01 or -0.01 is never a Match.
C2_DifferenceAndStatus ==
    Done =>
        \A i \in 1..Len(df_comparison) :
            LET r == df_comparison[i]
                d == PdfSumOf(r.Matricula) - LedgerSumOf(r.Matricula)
            IN /\ r.Diferencia = d
               /\ (r.Estado = "Coincide") <=> (Abs(d) < tolerance)
               /\ (r.Estado = "PDF Mayor") <=> (d >= tolerance)
               /\ (r.Estado = "Hoja de Calculo Mayor") <=> (d <= -tolerance)

\* A row whose difference is exactly 0.01 and a row whose difference is
\* exactly -0.01, in one call.
C2_Witness ==
    /\ Done
    /\ \E i \in 1..Len(df_comparison) : df_comparison[i].Diferencia = tolerance
    /\ \E i \in 1..Len(df_comparison) : df_comparison[i].Diferencia = -tolerance

-----------------------------------------------------------------------------
(* C3 *)

\* C3: the comparison rows are exactly one row per entity key of the union of
\* the line items' and the ledger entries' keys; a row's pdf amount is the sum
\* of the line totals of its key (0 when none) and its ledger amount the sum of
\* the ledger entries of its key (0 when none).
C3_OuterJoin ==
    Done =>
        /\ RowKeys = InputKeys
        /\ \A k \in InputKeys : Len(RowsOfKey(k)) = 1
        /\ \A i \in 1..Len(df_comparison) :
              /\ df_comparison[i].Importe_PDF = PdfSumOf(df_comparison[i].Matricula)
              /\ df_comparison[i].Importe_Spreadsheet =
                     LedgerSumOf(df_comparison[i].Matricula)

\* A key only in the line items, a key only in the ledger, and a key with
\* several line items and a ledger entry, in one call.
C3_Witness ==
    /\ Done
    /\ \E k \in RowKeys : Len(ItemsOfKey(k)) > 0 /\ Len(EntriesOfKey(k)) = 0
    /\ \E k \in RowKeys : Len(ItemsOfKey(k)) = 0 /\ Len(EntriesOfKey(k)) > 0
    /\ \E k \in RowKeys : Len(ItemsOfKey(k)) > 1 /\ Len(EntriesOfKey(k)) > 0

-----------------------------------------------------------------------------
(* C4 *)

\* C4: entity keys that differ only by leading or trailing whitespace, on one
\* side or across the two sides, share a single comparison row whose sums
\* include all of their entries, and no two rows have keys that are equal after
\* trimming; keys that differ in letter case keep separate rows.
C4_TrimmedKeys ==
    Done =>
        /\ \A i, j \in 1..Len(df_comparison) :
              Strip(df_comparison[i].Matricula) = Strip(df_comparison[j].Matricula)
                  => i = j
        /\ \A k \in InputKeys :
              \E i \in 1..Len(df_comparison) :
                  /\ df_comparison[i].Matricula = k
                  /\ df_comparison[i].Importe_PDF = PdfSumOf(k)
                  /\ df_comparison[i].Importe_Spreadsheet = LedgerSumOf(k)
        /\ (\E i \in 1..Len(df_pdf) : Strip(df_pdf[i].Matricula) = <<"A">>)
           /\ (\E i \in 1..Len(df_spreadsheet) :
                   Strip(df_spreadsheet[i].Matricula) = <<"a">>)
              => /\ Len(RowsOfKey(<<"A">>)) = 1
                 /\ Len(RowsOfKey(<<"a">>)) = 1
                 /\ RowsOfKey(<<"A">>)[1].Importe_PDF = PdfSumOf(<<"A">>)
                 /\ RowsOfKey(<<"a">>)[1].Importe_PDF = 0

\* Keys "A" and " A" among the line items, "A" and "A " among the ledger
\* entries: one row "A" that sums all four entries.
C4_Witness ==
    /\ Done
    /\ { df_pdf[i].Matricula : i \in 1..Len(df_pdf) } = { <<"A">>, <<" ", "A">> }
    /\ { df_spreadsheet[i].Matricula : i \in 1..Len(df_spreadsheet) }
           = { <<"A">>, <<"A", " ">> }
    /\ Len(df_comparison) = 1
    /\ df_comparison[1].Importe_PDF
           = SumSeq([i \in 1..Len(df_pdf) |-> df_pdf[i].Total])

-----------------------------------------------------------------------------
(* C5 *)

\* C5: the details mapping has an entry for an entity key exactly when that
\* entity's comparison row has |difference| >= 0.01; a Match row never has an
\* entry, so no candidate search is run for it.
C5_DetailsOnlyForMismatches ==
    Done =>
        /\ DOMAIN detailed_differences =
               { df_comparison[i].Matricula :
                     i \in { j \in 1..Len(df_comparison) :
                                 Abs(df_comparison[j].Diferencia) >= tolerance } }
        /\ \A i \in 1..Len(df_comparison) :
              df_comparison[i].Estado = "Coincide" =>
                  df_comparison[i].Matricula \notin DOMAIN detailed_differences

\* A Match row with a non-zero difference (no entry) next to a row whose
\* difference is exactly 0.01 in absolute value (entry).
C5_Witness ==
    /\ Done
    /\ \E i \in 1..Len(df_comparison) :
          /\ df_comparison[i].Diferencia # 0
          /\ df_comparison[i].Estado = "Coincide"
          /\ df_comparison[i].Matricula \notin DOMAIN detailed_differences
    /\ \E i \in 1..Len(df_comparison) :
          /\ Abs(df_comparison[i].Diferencia) = tolerance
          /\ df_comparison[i].Matricula \in DOMAIN detailed_differences

-----------------------------------------------------------------------------
(* C6 *)

\* Entities with ledger entries, no line item, and |ledger sum| >= 0.01.
LedgerOnly ==
    { k \in InputKeys :
          Len(ItemsOfKey(k)) = 0 /\ Abs(LedgerSumOf(k)) >= tolerance }

\* C6: an entity that appears only in the ledger, with |ledger sum| >= 0.01,
\* is reported with pdf amount 0, difference = -(ledger sum), status
\* LedgerGreater when the ledger sum is positive, and a details entry with
\* pdf_total 0, no items and no candidates.
C6_LedgerOnlyEntity ==
    Done =>
        \A k \in LedgerOnly :
            /\ Len(RowsOfKey(k)) = 1
            /\ RowsOfKey(k)[1].Importe_PDF = 0
            /\ RowsOfKey(k)[1].Diferencia = -LedgerSumOf(k)
            /\ LedgerSumOf(k) > 0 => RowsOfKey(k)[1].Estado = "Hoja de Calculo Mayor"
            /\ k \in DOMAIN detailed_differences
            /\ detailed_differences[k].pdf_total = 0
            /\ detailed_differences[k].spreadsheet_total = LedgerSumOf(k)
            /\ detailed_differences[k].difference = -LedgerSumOf(k)
            /\ detailed_differences[k].pdf_items = <<>>
            /\ detailed_differences[k].potential_matches = <<>>

\* A ledger-only entity with a positive ledger sum has been reported.
C6_Witness ==
    /\ Done
    /\ \E k \in LedgerOnly : LedgerSumOf(k) > 0 /\ k \in DOMAIN detailed_differences

-----------------------------------------------------------------------------
(* C7 *)

\* C7: the comparison rows are ordered by non-increasing |difference|: each
\* row's absolute difference is at least that of the row after it.
C7_SortedByAbsDifference ==
    Done =>
        \A i \in 1..(Len(df_comparison) - 1) :
            Abs(df_comparison[i].Diferencia) >= Abs(df_comparison[i + 1].Diferencia)

\* Three rows with three different absolute differences, returned in an
\* order that is not the key order of the merge.
C7_Witness ==
    /\ Done
    /\ Len(df_comparison) = 3
    /\ Abs(df_comparison[1].Diferencia) > Abs(df_comparison[2].Diferencia)
    /\ Abs(df_comparison[2].Diferencia) > Abs(df_comparison[3].Diferencia)
    /\ StrLess(df_comparison[2].Matricula, df_comparison[1].Matricula)

-----------------------------------------------------------------------------
(* C8 *)

\* C8: total_pdf is the sum of the pdf amounts of all comparison rows, which is
\* the sum of the line totals of all line items; total_diff is total_pdf minus
\* the sum of all ledger amounts, which is the sum of the rows' differences.
C8_Totals ==
    Done =>
        /\ total_pdf = SumSeq([i \in 1..Len(df_comparison) |->
                                   df_comparison[i].Importe_PDF])
        /\ total_pdf = SumSeq([i \in 1..Len(df_pdf) |-> df_pdf[i].Total])
        /\ total_diff = total_pdf
                        - SumSeq([i \in 1..Len(df_spreadsheet) |->
                                      df_spreadsheet[i].Importe_Spreadsheet])
        /\ total_diff = SumSeq([i \in 1..Len(df_comparison) |->
                                    df_comparison[i].Diferencia])

\* Totals over three rows, with several items and several ledger entries and a
\* total difference that is not zero.
C8_Witness ==
    /\ Done
    /\ Len(df_comparison) = 3
    /\ Len(df_pdf) > 2
    /\ Len(df_spreadsheet) > 1
    /\ total_diff # 0
    /\ total_pdf # 0

-----------------------------------------------------------------------------
(* C9 *)

\* Position in df_pdf of the item of entity k that is nearest to the ledger
\* sum, the earliest one among equally near items.
FirstNearest(k) ==
    LET it == ItemsOfKey(k)
        dist(l) == Abs(df_pdf[l].Total - LedgerSumOf(k))
    IN CHOOSE l \in { it[i] : i \in 1..Len(it) } :
           \A o \in { it[i] : i \in 1..Len(it) } :
               dist(l) < dist(o) \/ (dist(l) = dist(o) /\ l <= o)

\* C9: when a mismatched entity has line items, a non-zero ledger sum and
\* neither a single item nor a pair within 0.01 of the ledger sum, its
\* candidate list is exactly one closest match: the item nearest to the ledger
\* sum, the first in input order among equally near ones, with difference =
\* that item's total - ledger sum.
C9_ClosestIsFirstNearest ==
    Done =>
        \A k \in Searched :
            (~SingleHit(k) /\ ~PairHit(k)) =>
                LET pm == detailed_differences[k].potential_matches
                IN /\ Len(pm) = 1
                   /\ pm[1].type = "closest_match"
                   /\ Len(pm[1].pdf_items) = 1
                   /\ pm[1].pdf_items[1].label = FirstNearest(k)
                   /\ pm[1].pdf_items[1].total = df_pdf[FirstNearest(k)].Total
                   /\ pm[1].difference = df_pdf[FirstNearest(k)].Total - LedgerSumOf(k)

\* Items [100.0, 100.0] against a ledger sum of 180.0: the first item, with
\* difference -80.0.
C9_Witness ==
    /\ Done
    /\ \E k \in Searched :
          LET it == ItemsOfKey(k)
              pm == detailed_differences[k].potential_matches
          IN /\ Len(it) = 2
             /\ df_pdf[it[1]].Total = 20000
             /\ df_pdf[it[2]].Total = 20000
             /\ LedgerSumOf(k) = 36000
             /\ pm[1].type = "closest_match"
             /\ pm[1].pdf_items[1].label = it[1]
             /\ pm[1].difference = -16000

-----------------------------------------------------------------------------
(* Vocabulary of the properties of format_main_table *)

TableDone == tpc = "done"

\* Row i comes after the header row of the page.
AfterHeader(i) == \E h \in 1..(i - 1) : IsHeader(table[h])

\* Row i is classified as a grouping-context row: after the header, not blank,
\* no credit-note marker, one cell starting with "ALBARAN" and one cell
\* starting with "A:".
GroupingRow(i) ==
    /\ AfterHeader(i)
    /\ ~IsBlank(table[i])
    /\ ~IsAbono(table[i])
    /\ \E c \in 1..Len(table[i]) : StartsWith(table[i][c], ALBARAN)
    /\ \E c \in 1..Len(table[i]) : StartsWith(table[i][c], MatriculaPrefix)

\* Row i is a data row.
DataRow(i) ==
    /\ AfterHeader(i)
    /\ ~IsBlank(table[i])
    /\ ~IsAbono(table[i])
    /\ ~GroupingRow(i)

\* Positions of the data rows, in table order: the n-th item comes from the
\* n-th of them.
DataRows == SelectSeq(Positions(table), DataRow)

\* Grouping-context rows above row i.
GroupingAbove(i) == { g \in 1..(i - 1) : GroupingRow(g) }

Last(S) == CHOOSE g \in S : \A o \in S : o <= g

-----------------------------------------------------------------------------
(* C10 *)

\* C10: every emitted item carries the entity key and the reference date of
\* the most recent grouping-context row above it after the header of its page,
\* and an empty key and no date when there is none; a grouping-context row
\* emits no item.  The table header, ("ALBARAN 000999", "A:AB1234CD"), data,
\* data gives two items with key "AB1234CD" and date "000999".
C10_ItemsCarryGroupingContext ==
    TableDone =>
        /\ Len(result) = Len(DataRows)
        /\ \A n \in 1..Len(result) :
              LET G == GroupingAbove(DataRows[n])
              IN IF G = {}
                 THEN result[n].Matricula = Empty /\ result[n].Fecha = None
                 ELSE /\ result[n].Matricula = MatriculaOf(table[Last(G)])
                      /\ result[n].Fecha = {FechaOf(table[Last(G)])}
        /\ \A d1, d2 \in {DataRow1, DataRow2, HalfRow} :
              table = <<HeaderRow, GroupRow1, d1, d2>> =>
                  /\ Len(result) = 2
                  /\ \A n \in 1..2 :
                        /\ result[n].Matricula = <<"A", "B", "1", "2", "3", "4", "C", "D">>
                        /\ result[n].Fecha = {<<"0", "0", "0", "9", "9", "9">>}

\* A page with an item above its first grouping-context row and an item under
\* the row ("ALBARAN 000999", "A:AB1234CD").
C10_Witness ==
    /\ TableDone
    /\ Len(result) = 2
    /\ result[1].Matricula = Empty
    /\ result[1].Fecha = None
    /\ result[2].Matricula = <<"A", "B", "1", "2", "3", "4", "C", "D">>
    /\ result[2].Fecha = {<<"0", "0", "0", "9", "9", "9">>}

-----------------------------------------------------------------------------
(* C11 *)

\* Rows after the header that have both grouping markers, credit notes
\* included.
MarkedAbove(i) ==
    { g \in 1..(i - 1) :
          /\ AfterHeader(g)
          /\ \E c \in 1..Len(table[g]) : StartsWith(table[g][c], ALBARAN)
          /\ \E c \in 1..Len(table[g]) : StartsWith(table[g][c], MatriculaPrefix) }

\* C11: the output is, in row order, exactly one item per row after the header
\* that is not blank, has no cell containing "ABONO" and is not a
\* grouping-context row; rows before or at the header emit nothing.  A row
\* with an "ABONO" cell emits nothing and leaves the running key and date as
\* they were, also when it has both grouping markers.
C11_OneItemPerDataRow ==
    TableDone =>
        /\ Len(result) = Len(DataRows)
        /\ \A n \in 1..Len(result) :
              /\ result[n].Articulo = table[DataRows[n]][1]
              /\ result[n].Descripcion = table[DataRows[n]][2]
        /\ \A n \in 1..Len(result) :
              LET M == MarkedAbove(DataRows[n])
                  G == GroupingAbove(DataRows[n])
              IN (M # {} /\ IsAbono(table[Last(M)])) =>
                     IF G = {}
                     THEN result[n].Matricula = Empty /\ result[n].Fecha = None
                     ELSE /\ result[n].Matricula = MatriculaOf(table[Last(G)])
                          /\ result[n].Fecha = {FechaOf(table[Last(G)])}

\* Header, grouping row, a credit note with both markers, data row: one item,
\* still under the grouping row's key.
C11_Witness ==
    /\ TableDone
    /\ Len(table) = 4
    /\ IsHeader(table[1])
    /\ GroupingRow(2)
    /\ IsAbono(table[3]) /\ HasMarkers(table[3])
    /\ DataRow(4)
    /\ Len(result) = 1
    /\ result[1].Articulo = table[4][1]
    /\ result[1].Matricula = MatriculaOf(table[2])


-----------------------------------------------------------------------------
(* Vocabulary of the document-reading properties *)

PdfDone == rpc = "done"

\* The pages of the document whose table has no header row.
HeaderlessPages == { p \in 1..Len(pages) : HeaderIdx(pages[p]) = 0 }

\* Every numeric text of the collected items is one float() accepts.
NumbersParse ==
    \A n \in 1..Len(all_items) : \A col \in NumericColumns :
        FloatOf(all_items[n][col]) # None

-----------------------------------------------------------------------------
(* C12 *)

\* C12: a page whose table has no header row contributes no item, and
\* read_pdf still reaches its result whatever the number of such pages,
\* also when no page of the document yields an item.  (The code raises
\* KeyError on the frame built from no items.)
C12_HeaderlessPagesNeverAbort ==
    (PdfDone /\ HeaderlessPages # {} /\ NumbersParse) =>
        /\ \A p \in HeaderlessPages : FormatMainTable(pages[p]) = <<>>
        /\ raised = ""


-----------------------------------------------------------------------------
(* Vocabulary of the ledger-parsing properties *)

SheetDone == spc = "done"

\* The cells of the sheet that hold "Quincena <n>" for the chosen fortnight.
Anchors ==
    { rc \in (1..Len(data)) \X (1..Len(AnchorRow)) :
          /\ rc[2] <= Len(data[rc[1]])
          /\ Contains(Quincena \o fortnight, data[rc[1]][rc[2]]) }

\* The anchor: no other such cell is on an earlier row, or further left on
\* the same row.
Anchor ==
    CHOOSE a \in Anchors :
        \A o \in Anchors \ {a} : a[1] < o[1] \/ (a[1] = o[1] /\ a[2] < o[2])

\* The rows from two below the anchor row a that are too short for both of
\* its columns, a[2] + 2 for the keys and a[2] + 3 for the amounts.
TooShort(a) ==
    { i \in (a[1] + 2)..Len(data) :
          Len(data[i]) < a[2] + 2 \/ Len(data[i]) < a[2] + 3 }

\* The rows read: from two below the anchor row up to the first short row.
RowsRead(a) ==
    LET short == TooShort(a)
    IN { i \in (a[1] + 2)..Len(data) : \A s \in short : i < s }

\* The rows read whose amount cell is filled and is a number.
EmittingRows(a) ==
    LET read == RowsRead(a)
    IN SelectSeq(Positions(data),
                 LAMBDA i : /\ i \in read
                            /\ Strip(data[i][a[2] + 3]) # Empty
                            /\ ParseImporte(Strip(data[i][a[2] + 3])) # None)

-----------------------------------------------------------------------------
(* C13 *)

\* C13: the parser anchors on the first cell holding "Quincena <n>", reads
\* keys at anchor+2 and amounts at anchor+3 from two rows below the anchor
\* row up to the first row too short for both columns, and emits, in row
\* order, exactly one entry per row read whose trimmed amount is non-empty
\* and parses as a number, with the trimmed key (possibly empty) and that
\* number; without an anchor it emits nothing.
C13_LedgerSectionScan ==
    SheetDone =>
        IF Anchors = {} THEN vehicles_data = <<>>
        ELSE LET a == Anchor
                 rows == EmittingRows(a)
             IN /\ Len(vehicles_data) = Len(rows)
                /\ \A n \in 1..Len(vehicles_data) :
                      /\ vehicles_data[n].Matricula = Strip(data[rows[n]][a[2] + 2])
                      /\ vehicles_data[n].Importe_Spreadsheet =
                             ParseImporte(Strip(data[rows[n]][a[2] + 3]))

\* Left section of a sheet whose anchor row comes second: the row above the
\* anchor row and the row right below it emit nothing although they hold a
\* vehicle, then a vehicle is emitted with its trimmed key and 12.3, then a
\* row without key is emitted with 7.
C13_Witness ==
    /\ SheetDone
    /\ fortnight = <<"1">>
    /\ data = <<EntryRow, AnchorRow, EntryRow, EntryRow, OddRow>>
    /\ vehicles_data =
          <<[Matricula |-> <<"A", "B", "1">>,
             Importe_Spreadsheet |-> {[num |-> 123, scale |-> 1]}],
            [Matricula |-> Empty,
             Importe_Spreadsheet |-> {[num |-> 7, scale |-> 0]}]>>

\* Right section: the scan stops at a row that holds the left section only,
\* and the vehicle below it is never read; the blank amount above it is
\* skipped without stopping.
C13_WitnessStop ==
    /\ SheetDone
    /\ fortnight = <<"2">>
    /\ data = <<AnchorRow, SubHeaderRow, OddRow, EntryRow, ShortRow>>
    /\ Len(vehicles_data) = 1
    /\ vehicles_data[1].Matricula = <<"C", "D", "2">>
    /\ vehicles_data[1].Importe_Spreadsheet = {[num |-> 0 - 5, scale |-> 0]}
    /\ TooShort(Anchor) = {5}


-----------------------------------------------------------------------------
(* Vocabulary of the number-conversion properties *)

ConvertDone == cpc = "done"

\* The text without its "%" characters.
WithoutPercent(s) == SelectSeq(s, LAMBDA c : c # "%")

\* The text cleaned as convert_str_to_float cleans it.
Cleaned(s) == Replace(SelectSeq(s, LAMBDA c : c # "."), ",", <<".">>)

\* A signed decimal: an optional sign, then digits around at most one
\* decimal point, with a digit somewhere.
SignedDecimal(s) ==
    \E sign \in {<<>>, <<"-">>, <<"+">>} :
        \E k \in 0..Len(s) :
            LET whole == SubSeq(s, Len(sign) + 1, k)
                frac == SubSeq(s, k + 2, Len(s))
            IN /\ StartsWith(s, sign)
               /\ k >= Len(sign)
               /\ k = Len(s) \/ s[k + 1] = "."
               /\ \A i \in 1..Len(whole) : IsDigit(whole[i])
               /\ \A i \in 1..Len(frac) : IsDigit(frac[i])
               /\ Len(whole) + Len(frac) > 0

RECURSIVE Pow10(_)
Pow10(n) == IF n = 0 THEN 1 ELSE Len(Digits) * Pow10(n - 1)

\* x is the float whose value is n / 10^d.
IsNumber(x, n, d) ==
    \E v \in x : v.scale <= d /\ v.num * Pow10(d - v.scale) = n

\* The digits of a text read as one integer, negative when the text starts
\* with "-", and the count of its characters after the first "." .
SignedDigits(s) ==
    IF StartsWith(s, <<"-">>) THEN 0 - IntOf(SelectSeq(s, IsDigit))
    ELSE IntOf(SelectSeq(s, IsDigit))

FractionLen(s) ==
    IF \E i \in 1..Len(s) : s[i] = "." THEN Len(Split(s, ".")[2]) ELSE 0

-----------------------------------------------------------------------------
(* C14 *)

\* C14 as stated: the result is the number read from the text with "%"
\* stripped, "." removed and "," turned into ".", and the conversion fails
\* exactly when that text is no valid number.
C14_PercentStripped ==
    ConvertDone =>
        LET clean == Cleaned(WithoutPercent(item))
        IN IF SignedDecimal(clean)
           THEN IsNumber(converted, SignedDigits(clean), FractionLen(clean))
           ELSE converted = None

\* C14 amended: "%" is not stripped.  The result is the number read from the
\* text with "." removed and "," turned into "." ("1.399,5" gives 1399.5,
\* "-12,30" gives -12.30), and the conversion fails exactly when that text is
\* no valid number: empty, with two decimal points, or holding a "%".
C14_PercentKept ==
    ConvertDone =>
        LET clean == Cleaned(item)
        IN /\ IF SignedDecimal(clean)
              THEN IsNumber(converted, SignedDigits(clean), FractionLen(clean))
              ELSE converted = None
           /\ item = <<"1", ".", "3", "9", "9", ",", "5">> =>
                  converted = {[num |-> 13995, scale |-> 1]}
           /\ item = <<"-", "1", "2", ",", "3", "0">> =>
                  converted = {[num |-> 0 - 123, scale |-> 1]}
           /\ item = Empty => converted = None
           /\ Len(Split(item, ",")) > 2 => converted = None
           /\ Contains(<<"%">>, item) => converted = None

\* A number followed by "%" was converted: the call failed, although the
\* text without the "%" is a valid number.
C14_Witness ==
    /\ ConvertDone
    /\ item = <<"1", "2", ",", "3", "0", "%">>
    /\ converted = None
    /\ SignedDecimal(Cleaned(WithoutPercent(item)))


-----------------------------------------------------------------------------
(* C15 *)

\* The pair candidates the details of entity k list, in their order.
CombosOf(k) ==
    SelectSeq(detailed_differences[k].potential_matches,
              LAMBDA c : c.type = "combo_match")

\* The pairs of two different item positions of entity k, the earlier one
\* first, whose line totals sum to within the tolerance of the ledger sum.
PairsWithin(k) ==
    { p \in ItemsOfKeySet(k) \X ItemsOfKeySet(k) :
          /\ p[1] < p[2]
          /\ Abs(df_pdf[p[1]].Total + df_pdf[p[2]].Total - LedgerSumOf(k))
                 < tolerance }

-----------------------------------------------------------------------------
(* C16 *)

\* Mismatched entities with line items whose ledger entries sum to exactly 0,
\* those without a ledger entry included.
Unexplained ==
    { k \in DOMAIN detailed_differences :
          Len(ItemsOfKey(k)) > 0 /\ LedgerSumOf(k) = 0 }

\* C16: for a mismatched entity with line items and a ledger sum of exactly 0
\* (an entity absent from the ledger included) no candidate search runs: the
\* details list all of its items, the difference is its pdf sum and the
\* candidate list is empty.
C16_NoSearchForZeroLedgerSum ==
    Done =>
        \A k \in Unexplained :
            /\ detailed_differences[k].pdf_items =
                   [n \in 1..Len(ItemsOfKey(k)) |->
                       [label |-> ItemsOfKey(k)[n],
                        total |-> df_pdf[ItemsOfKey(k)[n]].Total]]
            /\ detailed_differences[k].difference = PdfSumOf(k)
            /\ detailed_differences[k].spreadsheet_total = 0
            /\ detailed_differences[k].potential_matches = <<>>

\* One entity absent from the ledger and one whose two ledger entries cancel
\* out, both with line items, in one call.
C16_Witness ==
    /\ Done
    /\ \E k \in Unexplained : Len(EntriesOfKey(k)) = 0
    /\ \E k \in Unexplained : Len(EntriesOfKey(k)) = 2


-----------------------------------------------------------------------------
(* C17 *)

\* The text after the first ":" of a cell that holds one.
AfterFirstColon(cell) ==
    LET i == CHOOSE i \in 1..Len(cell) :
                 cell[i] = ":" /\ \A j \in 1..(i - 1) : cell[j] # ":"
    IN SubSeq(cell, i + 1, Len(cell))

\* The entity-marker cell of a grouping row: its first cell starting "A:".
MarkerCell(line) == line[MarkerIdx(line, MatriculaPrefix)[1]]

\* C17: the entity key an item carries is the whole text after the first ":"
\* of the entity-marker cell of the grouping row above it, trimmed, also when
\* that text holds further ":" ("A:AB:CD" gives "AB:CD").  (The code keeps
\* the text between the first and the second ":" only.)
C17_KeyIsAllAfterFirstColon ==
    TableDone =>
        /\ Len(result) = Len(DataRows)
        /\ \A n \in 1..Len(result) :
              LET G == GroupingAbove(DataRows[n])
              IN G # {} =>
                     result[n].Matricula =
                         Strip(AfterFirstColon(MarkerCell(table[Last(G)])))


-----------------------------------------------------------------------------
(* C18 *)

\* The rows of a page below its header row; none for a headerless page.
BelowHeader(t) ==
    IF HeaderIdx(t) = 0 THEN <<>> ELSE SubSeq(t, HeaderIdx(t) + 1, Len(t))

\* The rows below the headers of all pages, in document order.
RECURSIVE DocumentRows(_)
DocumentRows(ps) ==
    IF ps = <<>> THEN <<>> ELSE BelowHeader(Head(ps)) \o DocumentRows(Tail(ps))

IsGroupingLine(line) == ~IsBlank(line) /\ ~IsAbono(line) /\ HasMarkers(line)

IsDataLine(line) == ~IsBlank(line) /\ ~IsAbono(line) /\ ~HasMarkers(line)

\* C18: every line item of the document carries the entity key and the
\* reference date of the last grouping row above it in document order, on
\* its own page or on an earlier one; only the items above the first
\* grouping row of the whole document have an empty key and no date.  (The
\* code starts every page with an empty key and no date.)
C18_ContextCarriesAcrossPages ==
    PdfDone =>
        LET rows == DocumentRows(pages)
            items == SelectSeq(Positions(rows), LAMBDA i : IsDataLine(rows[i]))
        IN /\ Len(all_items) = Len(items)
           /\ \A n \in 1..Len(all_items) :
                 LET G == { g \in 1..(items[n] - 1) : IsGroupingLine(rows[g]) }
                 IN IF G = {}
                    THEN /\ all_items[n].Matricula = Empty
                         /\ all_items[n].Fecha = None
                    ELSE /\ all_items[n].Matricula = MatriculaOf(rows[Last(G)])
                         /\ all_items[n].Fecha = {FechaOf(rows[Last(G)])}


-----------------------------------------------------------------------------
(* C19 *)

\* The number a numeric cell stands for: 0 for an empty cell, else the
\* value convert_str_to_float gives its text.
CellValue(cell) ==
    IF cell = Empty THEN {[num |-> 0, scale |-> 0]} ELSE ConvertStrToFloat(cell)

\* C19: for every data row of the document the typed quantity, unit price
\* and line total are the converter's values of their cells (period for
\* thousands, comma for decimals: "1.399,5" is 1399.5), the typed discount
\* is the converter's value of its cell without "%", and an empty cell is 0.
\* (The code only turns "," into ".", so that "1.399,5" is no float and
\* "1.399" is 1.399.)
C19_CellsConvertedByLocale ==
    (PdfDone /\ all_items # <<>>) =>
        LET rows == DocumentRows(pages)
            items == SelectSeq(Positions(rows), LAMBDA i : IsDataLine(rows[i]))
        IN /\ raised = ""
           /\ Len(df_typed) = Len(items)
           /\ \A n \in 1..Len(df_typed) :
                 /\ df_typed[n].Cantidad = CellValue(rows[items[n]][3])
                 /\ df_typed[n].Precio = CellValue(rows[items[n]][4])
                 /\ df_typed[n].Descuento =
                        CellValue(WithoutPercent(rows[items[n]][5]))
                 /\ df_typed[n].Total = CellValue(rows[items[n]][6])

====
